---- MODULE Spec2Model ----
(***************************************************************************)
(* Retrieval-and-grounding pipeline of the AI legal assistant backend:     *)
(* the relational document table, the two ChromaDB collections             *)
(* (legal_knowledge, user_documents), document ingest / delete, the        *)
(* VectorStoreService searches and the RAGService request handlers.        *)
(*                                                                         *)
(* Texts are small integers; the sentence-embedding model maps a text to   *)
(* one of four unit vectors, the empty text to the zero vector. ChromaDB   *)
(* collections are created without "hnsw:space", so distances are squared  *)
(* L2 distances. Strings that are only compared or concatenated (the       *)
(* answer, the disclaimer) are sequences of tokens.                        *)
(*                                                                         *)
(* Operations on one document id are serialized (one processing job per    *)
(* document at a time, no delete while a job runs); operations on          *)
(* different documents interleave freely.                                  *)
(*                                                                         *)
(* The pure functions (chunk_text, assign_pages_to_chunks, embed_texts,    *)
(* get_conversation_history, build_context_text) are applied to every      *)
(* input within the bounds; a text handed to chunk_text is the sequence of *)
(* its sentences' lengths.                                                 *)
(*                                                                         *)
(* send_chat_message requests on one chat session run each in a database   *)
(* session of their own and interleave at their awaits.                    *)
(***************************************************************************)
EXTENDS Integers, Sequences, FiniteSets, TLC

\* ------------------------------------------------------------------ bounds
MaxChunks == 2      \* chunks one extraction can yield
MaxRuns == 2        \* ingest runs (process_document, add_knowledge_from_text) in one behaviour
MaxK == 2           \* n_results of a search
MaxSentences == 4   \* sentences of a text handed to chunk_text
MaxSentenceLen == 3 \* characters of a sentence
MaxChunkSize == 4   \* chunk_size of chunk_text
MaxOverlap == 2     \* chunk_overlap of chunk_text
MaxTexts == 3       \* texts of one embed_texts batch
MaxMessages == 4    \* messages of a chat session
MaxHistory == 2     \* max_messages of get_conversation_history
MaxPassages == 6    \* passages handed to build_context_text
MaxPages == 2       \* pages of an extraction
MaxPageChars == 2   \* characters of a page
MaxPagedChunks == 1 \* chunks handed to assign_pages_to_chunks
MaxStartChar == 3   \* start_char of such a chunk
MaxCharCount == 2   \* char_count of such a chunk
MaxRequests == 3    \* send_chat_message requests on the chat session

Users == {"u1", "u2"}
Docs == {"d1", "d2"}
KbIds == {"k1"}
Texts == {1, 2}
EmptyText == 0
WhitespaceText == 4
Queries == {EmptyText, 1}
NoUser == "no_user"
NoDoc == "no_doc"

VARIABLES docs, dbChunks, runs, docRun, userIndex, kbIndex, kbs, resp,
          chatSession, chatMessages, requests

vars == <<docs, dbChunks, runs, docRun, userIndex, kbIndex, kbs, resp,
          chatSession, chatMessages, requests>>

\* ------------------------------------------------------- sequence helpers
Range(s) == {s[i] : i \in 1..Len(s)}

Take(s, n) == IF n >= Len(s) THEN s ELSE IF n <= 0 THEN <<>> ELSE SubSeq(s, 1, n)

\* ----------------------------------------------------------- the embedder
\* the pretrained sentence-embedding model: an L2-normalized vector per text
EmbedModel(t) ==
    CASE t % 4 = 1 -> <<1, 0>>
      [] t % 4 = 2 -> <<0, 1>>
      [] t % 4 = 3 -> <<-1, 0>>
      [] OTHER -> <<0, -1>>

\* EmbeddingService.embed_text: empty / whitespace-only text -> zero vector
embed_text(t) == IF t \in {EmptyText, WhitespaceText} THEN <<0, 0>> ELSE EmbedModel(t)

\* ChromaDB's default space "l2": squared Euclidean distance
Distance(a, b) == (a[1] - b[1]) * (a[1] - b[1]) + (a[2] - b[2]) * (a[2] - b[2])

\* ------------------------------------------------------ ChromaDB collection
\* A collection is a set of entries with pairwise distinct ids.
Ids(coll) == {e.id : e \in coll}

\* Collection.add: entries whose id already exists are ignored (the stored
\* entry is kept); it is not an upsert.
CollectionAdd(coll, entries) ==
    coll \cup {e \in entries : e.id \notin Ids(coll)}

\* a where filter is a set of <<metadata key, value>> equality conditions,
\* all of which must hold ($and); the empty set is "no filter"
Matches(e, where) == \A c \in where : e.metadata[c[1]] = c[2]

\* Collection.get(where=...) with include=[]: the ids of the matching entries
CollectionGet(coll, where) == {e.id : e \in {x \in coll : Matches(x, where)}}

\* Collection.delete(ids=...)
CollectionDelete(coll, ids) == {e \in coll : e.id \notin ids}

RECURSIVE Rankings(_, _)
\* the nearest-first listings of up to n of the hits S: each next hit is one
\* of the nearest remaining; which of several equidistant hits comes first
\* is the index's choice
Rankings(S, n) ==
    IF S = {} \/ n <= 0 THEN {<<>>}
    ELSE LET nearest == {x \in S : \A y \in S : x.distance <= y.distance}
         IN UNION {{<<x>> \o r : r \in Rankings(S \ {x}, n - 1)} : x \in nearest}

\* Collection.query: the n_results nearest matching entries, nearest first,
\* each with its distance; one of a set of rankings when distances tie
CollectionQuery(coll, qvec, n, where) ==
    LET hits == {[id |-> e.id,
                  document |-> e.document,
                  metadata |-> e.metadata,
                  distance |-> Distance(qvec, embed_text(e.document))] :
                    e \in {x \in coll : Matches(x, where)}}
    IN Rankings(hits, n)

\* ------------------------------------------------------ VectorStoreService
\* the chunk dictionaries handed to the vector store: chunk i of an
\* extraction carries chunk_index i-1 and its text
ChunkDicts(texts) ==
    [i \in 1..Len(texts) |-> [chunk_index |-> i - 1, content |-> texts[i]]]

\* what extraction and chunking of a file can yield: n chunks, their texts
\* alternating
ChunkLists ==
    {ChunkDicts([i \in 1..n |-> IF i % 2 = 1 THEN 1 ELSE 2]) : n \in 0..MaxChunks}

\* an id built from the next chunk's index
DocChunkIdShifted(document_id, chunk_index) == <<document_id, chunk_index + 1>>

\* chunk_id = f"{document_id}_{chunk['chunk_index']}"
DocChunkId(document_id, chunk_index) == <<document_id, chunk_index>>

\* chunk_id = f"kb_{knowledge_base_id}_{chunk['chunk_index']}"
KbChunkId(knowledge_base_id, chunk_index) == <<"kb", knowledge_base_id, chunk_index>>

\* add_document_chunks: ids, documents and metadatas of the chunks, embedded
\* and added to user_documents. fault "embed": embed_texts raises; fault
\* "add": collection.add raises. Returns the collection and the ids.
add_document_chunks(coll, chunks, user_id, document_id, fault) ==
    LET ids == [i \in 1..Len(chunks) |-> DocChunkId(document_id, chunks[i].chunk_index)]
        entries == {[id |-> ids[i],
                     document |-> chunks[i].content,
                     metadata |-> [user_id |-> user_id,
                                   document_id |-> document_id,
                                   chunk_index |-> chunks[i].chunk_index]] :
                    i \in 1..Len(chunks)}
    IN IF chunks = <<>> THEN [raised |-> FALSE, coll |-> coll, ids |-> <<>>]
       ELSE IF fault \in {"embed", "add"} THEN [raised |-> TRUE, coll |-> coll, ids |-> <<>>]
       ELSE [raised |-> FALSE, coll |-> CollectionAdd(coll, entries), ids |-> ids]

\* add_knowledge_base_chunks: the same for legal_knowledge
add_knowledge_base_chunks(coll, chunks, knowledge_base_id, category, fault) ==
    LET ids == [i \in 1..Len(chunks) |-> KbChunkId(knowledge_base_id, chunks[i].chunk_index)]
        entries == {[id |-> ids[i],
                     document |-> chunks[i].content,
                     metadata |-> [knowledge_base_id |-> knowledge_base_id,
                                   category |-> category,
                                   chunk_index |-> chunks[i].chunk_index]] :
                    i \in 1..Len(chunks)}
    IN IF chunks = <<>> THEN [raised |-> FALSE, coll |-> coll, ids |-> <<>>]
       ELSE IF fault \in {"embed", "add"} THEN [raised |-> TRUE, coll |-> coll, ids |-> <<>>]
       ELSE [raised |-> FALSE, coll |-> CollectionAdd(coll, entries), ids |-> ids]

\* _format_search_results: one result dictionary per returned id
format_search_results(results) ==
    [i \in 1..Len(results) |-> [id |-> results[i].id,
                                content |-> results[i].document,
                                metadata |-> results[i].metadata,
                                distance |-> results[i].distance,
                                similarity |-> 1 - results[i].distance]]

\* the filter with the user test lost when a document id is given
UserDocsWhereDocOnly(user_id, document_id) ==
    IF document_id # NoDoc
    THEN {<<"document_id", document_id>>}
    ELSE {<<"user_id", user_id>>}

\* where_filter of search_user_documents: user_id alone, or user_id AND
\* document_id when a document id is given
UserDocsWhere(user_id, document_id) ==
    IF document_id # NoDoc
    THEN {<<"user_id", user_id>>, <<"document_id", document_id>>}
    ELSE {<<"user_id", user_id>>}

\* search_user_documents without the count() test: the query is embedded
\* and the collection queried even when the collection is empty
search_user_documents_unchecked(coll, query, user_id, document_id, n_results, fault) ==
    LET where_filter == UserDocsWhere(user_id, document_id)
    IN IF fault \in {"count", "embed"} THEN {[raised |-> TRUE, results |-> <<>>]}
       ELSE IF fault = "query" THEN {[raised |-> FALSE, results |-> <<>>]}
       ELSE {[raised |-> FALSE, results |-> format_search_results(r)] :
                r \in CollectionQuery(coll, embed_text(query), n_results, where_filter)}

\* search_user_documents: the set of values the call can produce. fault
\* "count" (opening or counting the collection raises) and "embed" (embedding
\* the query raises) are outside the try block; fault "query" (collection.query
\* raises) is caught and yields [].
search_user_documents(coll, query, user_id, document_id, n_results, fault) ==
    LET where_filter == UserDocsWhere(user_id, document_id)
    IN IF fault = "count" THEN {[raised |-> TRUE, results |-> <<>>]}
       ELSE IF coll = {} THEN {[raised |-> FALSE, results |-> <<>>]}
       ELSE IF fault = "embed" THEN {[raised |-> TRUE, results |-> <<>>]}
       ELSE IF fault = "query" THEN {[raised |-> FALSE, results |-> <<>>]}
       ELSE {[raised |-> FALSE, results |-> format_search_results(r)] :
                r \in CollectionQuery(coll, embed_text(query), n_results, where_filter)}

\* search_legal_knowledge with collection.query outside the try block
search_legal_knowledge_uncaught(coll, query, n_results, fault) ==
    LET where_filter == {}
    IN IF fault = "count" THEN {[raised |-> TRUE, results |-> <<>>]}
       ELSE IF coll = {} THEN {[raised |-> FALSE, results |-> <<>>]}
       ELSE IF fault \in {"embed", "query"} THEN {[raised |-> TRUE, results |-> <<>>]}
       ELSE {[raised |-> FALSE, results |-> format_search_results(r)] :
                r \in CollectionQuery(coll, embed_text(query), n_results, where_filter)}

\* search_legal_knowledge (category filter not given): same structure
search_legal_knowledge(coll, query, n_results, fault) ==
    LET where_filter == {}
    IN IF fault = "count" THEN {[raised |-> TRUE, results |-> <<>>]}
       ELSE IF coll = {} THEN {[raised |-> FALSE, results |-> <<>>]}
       ELSE IF fault = "embed" THEN {[raised |-> TRUE, results |-> <<>>]}
       ELSE IF fault = "query" THEN {[raised |-> FALSE, results |-> <<>>]}
       ELSE {[raised |-> FALSE, results |-> format_search_results(r)] :
                r \in CollectionQuery(coll, embed_text(query), n_results, where_filter)}

\* r['source_type'] = tag for every result of a sub-query
Tag(results, tag) ==
    [i \in 1..Len(results) |-> [id |-> results[i].id,
                                content |-> results[i].content,
                                metadata |-> results[i].metadata,
                                distance |-> results[i].distance,
                                similarity |-> results[i].similarity,
                                source_type |-> tag]]

\* an insertion that puts x before the elements of equal key
InsertBeforeEqual(sorted, x) ==
    LET before == {i \in 1..Len(sorted) : sorted[i].distance < x.distance}
        n == Cardinality(before)
    IN SubSeq(sorted, 1, n) \o <<x>> \o SubSeq(sorted, n + 1, Len(sorted))

\* one insertion of list.sort: x goes after every element whose key is <= its key
InsertByDistance(sorted, x) ==
    LET before == {i \in 1..Len(sorted) : sorted[i].distance <= x.distance}
        n == Cardinality(before)
    IN SubSeq(sorted, 1, n) \o <<x>> \o SubSeq(sorted, n + 1, Len(sorted))

\* the sort left out
SortByDistanceSkipped(s) == s

RECURSIVE SortByDistance(_)
\* all_results.sort(key=distance): Python's sort is stable
SortByDistance(s) ==
    IF s = <<>> THEN <<>>
    ELSE InsertByDistance(SortByDistance(SubSeq(s, 1, Len(s) - 1)), s[Len(s)])

\* search_all: knowledge base first, then user documents, each tagged;
\* concatenated, sorted by distance, cut to n_results. A sub-query that
\* raises makes search_all raise.
search_all(kbColl, docColl, query, user_id, n_results, include_knowledge_base, include_user_docs, document_id, kbFault, docFault) ==
    LET kbOut == IF include_knowledge_base
                 THEN search_legal_knowledge(kbColl, query, n_results, kbFault)
                 ELSE {[raised |-> FALSE, results |-> <<>>]}
        docOut == IF include_user_docs
                  THEN search_user_documents(docColl, query, user_id, document_id,
                                             n_results, docFault)
                  ELSE {[raised |-> FALSE, results |-> <<>>]}
    IN {IF kb.raised \/ doc.raised
        THEN [raised |-> TRUE, results |-> <<>>, kb_results |-> <<>>, doc_results |-> <<>>]
        ELSE [raised |-> FALSE,
              results |-> Take(SortByDistance(Tag(kb.results, "knowledge_base")
                                              \o Tag(doc.results, "user_document")),
                               n_results),
              kb_results |-> kb.results,
              doc_results |-> doc.results] :
        kb \in kbOut, doc \in docOut}

\* a delete whose filter names the user alone
delete_document_chunks_of_user(coll, document_id, user_id, fault) ==
    LET ids == CollectionGet(coll, {<<"user_id", user_id>>})
    IN IF fault = "index" THEN [ok |-> FALSE, coll |-> coll]
       ELSE [ok |-> TRUE, coll |-> CollectionDelete(coll, ids)]

\* delete_document_chunks: get the ids of the (document, user) scope and delete
\* them; any exception (fault "index") is caught and False returned.
delete_document_chunks(coll, document_id, user_id, fault) ==
    LET ids == CollectionGet(coll, {<<"document_id", document_id>>, <<"user_id", user_id>>})
    IN IF fault = "index" THEN [ok |-> FALSE, coll |-> coll]
       ELSE [ok |-> TRUE, coll |-> CollectionDelete(coll, ids)]

\* delete_knowledge_base_chunks: the same for one knowledge-base entry
delete_knowledge_base_chunks(coll, knowledge_base_id, fault) ==
    LET ids == CollectionGet(coll, {<<"knowledge_base_id", knowledge_base_id>>})
    IN IF fault = "index" THEN [ok |-> FALSE, coll |-> coll]
       ELSE [ok |-> TRUE, coll |-> CollectionDelete(coll, ids)]

\* ------------------------------------------------------------- the state
\* docs[d]      the documents table row of d (status "absent": never
\*              uploaded, "deleted": row deleted)
\* dbChunks[d]  the document_chunks rows of d, in insertion order; run is the
\*              process_document run that inserted the row
\* runs         ingest runs started so far
\* docRun[d]    the number of the run of d that started last
\* userIndex    the user_documents collection
\* kbIndex      the legal_knowledge collection
\* kbs[k]       status of knowledge-base entry k
\* resp         what the operation that ran last returned or raised
NoRow == [status |-> "absent", user_id |-> NoUser, chunk_count |-> 0]

NoChromaId == <<>>

\* op, outcome ("ok" or the exception raised) and arguments (user, doc, n,
\* flags, faults); for a request also: trace (the stages it went through),
\* chunks (the passages retrieval returned), kb_results / doc_results (the
\* two sub-query results of search_all), raw (the generation backend's
\* text), answer, sources, searches and generate_calls (calls made to the
\* vector store and to the generation backend), context (the context block
\* of the composed prompt), backend_failed (the generation backend's call
\* failed), gen_raised (generate_response raised); for a call of a pure
\* function: input and output
NoContext == [text |-> "", parts |-> <<>>]

NoResp ==
    [op |-> "none", outcome |-> "none", user |-> NoUser, doc |-> NoDoc, n |-> 0,
     flags |-> <<>>, faults |-> <<>>, trace |-> <<>>, chunks |-> <<>>,
     kb_results |-> <<>>, doc_results |-> <<>>, raw |-> <<>>, answer |-> <<>>,
     sources |-> <<>>, searches |-> 0, generate_calls |-> 0,
     context |-> NoContext, backend_failed |-> FALSE, gen_raised |-> FALSE,
     input |-> <<>>, output |-> <<>>]

\* create_session: a general session, no message yet
NewSession == [title |-> "New Legal Query", message_count |-> 0, total_tokens |-> 0]

\* the send_chat_message requests made on the session
Requests == 1..MaxRequests

Init ==
    /\ docs = [d \in Docs |-> NoRow]
    /\ dbChunks = [d \in Docs |-> <<>>]
    /\ runs = 0
    /\ docRun = [d \in Docs |-> 0]
    /\ userIndex = {}
    /\ kbIndex = {}
    /\ kbs = [k \in KbIds |-> "absent"]
    /\ resp = NoResp
    /\ chatSession = NewSession
    /\ chatMessages = <<>>
    /\ requests = [r \in Requests |-> [pc |-> "idle", session |-> NewSession]]

\* get_document_by_id(document_id, user_id): the row, if it exists and is the user's
Found(d, u) == docs[d].status \notin {"absent", "deleted"} /\ docs[d].user_id = u

\* ------------------------------------------------------- DocumentService
\* upload_document: a new row with status pending
UploadDocument(d, u) ==
    /\ docs[d].status = "absent"
    /\ docs' = [docs EXCEPT ![d] = [status |-> "pending", user_id |-> u, chunk_count |-> 0]]
    /\ resp' = [NoResp EXCEPT !.op = "upload_document", !.outcome = "ok", !.doc = d]
    /\ UNCHANGED <<dbChunks, runs, docRun, userIndex, kbIndex, kbs,
                   chatSession, chatMessages, requests>>

\* process_document up to its first commit: status processing
ProcessBegin(d) ==
    /\ docs[d].status \in {"pending", "ready", "failed"}
    /\ runs < MaxRuns
    /\ docs' = [docs EXCEPT ![d].status = "processing"]
    /\ runs' = runs + 1
    /\ docRun' = [docRun EXCEPT ![d] = runs + 1]
    /\ resp' = [NoResp EXCEPT !.op = "process_begin", !.outcome = "ok", !.doc = d]
    /\ UNCHANGED <<dbChunks, userIndex, kbIndex, kbs,
                   chatSession, chatMessages, requests>>

\* the DocumentChunk rows process_document adds for the chunks
NewRows(chunks, run) ==
    [i \in 1..Len(chunks) |-> [chunk_index |-> chunks[i].chunk_index,
                               content |-> chunks[i].content,
                               chroma_id |-> NoChromaId,
                               run |-> run]]

\* position of row p in "order_by(DocumentChunk.chunk_index)" (rows with the
\* same chunk_index in insertion order)
RowRank(rows, p) ==
    Cardinality({q \in 1..Len(rows) :
                    \/ rows[q].chunk_index < rows[p].chunk_index
                    \/ rows[q].chunk_index = rows[p].chunk_index /\ q < p}) + 1

\* "for i, db_chunk in enumerate(db_chunk_records): if i < len(chroma_ids):
\*  db_chunk.chroma_id = chroma_ids[i]"
AssignChromaIds(rows, chroma_ids) ==
    [p \in 1..Len(rows) |->
        IF RowRank(rows, p) <= Len(chroma_ids)
        THEN [rows[p] EXCEPT !.chroma_id = chroma_ids[RowRank(rows, p)]]
        ELSE rows[p]]

ProcessFaults == {"none", "extract_error", "pre_commit", "embed", "add"}

\* process_document after the first commit. fault "extract_error":
\* extract_text reports an error (status failed, the document is returned);
\* "pre_commit": an exception before the chunk rows are committed; "embed" /
\* "add": add_document_chunks raises after the chunk rows are committed.
ProcessRun(d, chunks, fault) ==
    /\ docs[d].status = "processing"
    /\ LET added == add_document_chunks(userIndex, chunks, docs[d].user_id, d, fault)
           rows == dbChunks[d] \o NewRows(chunks, docRun[d])
           r == [NoResp EXCEPT !.op = "process_document", !.doc = d]
       IN IF fault = "extract_error"
          THEN /\ docs' = [docs EXCEPT ![d].status = "failed"]
               /\ resp' = [r EXCEPT !.outcome = "ok"]
               /\ UNCHANGED <<dbChunks, userIndex>>
          ELSE IF fault = "pre_commit"
          THEN /\ docs' = [docs EXCEPT ![d].status = "failed"]
               /\ resp' = [r EXCEPT !.outcome = "FileProcessingError"]
               /\ UNCHANGED <<dbChunks, userIndex>>
          ELSE IF added.raised
          THEN /\ docs' = [docs EXCEPT ![d].status = "failed"]
               /\ dbChunks' = [dbChunks EXCEPT ![d] = rows]
               /\ resp' = [r EXCEPT !.outcome = "FileProcessingError"]
               /\ UNCHANGED userIndex
          ELSE /\ docs' = [docs EXCEPT ![d].status = "ready",
                                       ![d].chunk_count = Len(chunks)]
               /\ dbChunks' = [dbChunks EXCEPT ![d] = AssignChromaIds(rows, added.ids)]
               /\ userIndex' = added.coll
               /\ resp' = [r EXCEPT !.outcome = "ok"]
    /\ UNCHANGED <<runs, docRun, kbIndex, kbs,
                   chatSession, chatMessages, requests>>

\* delete_document: NotFoundError unless the row is the user's; otherwise the
\* index entries (the return value of delete_document_chunks is not looked
\* at), the file, the chunk rows and the row are deleted and True returned.
DeleteDocument(d, u, fault) ==
    /\ docs[d].status # "processing"
    /\ LET r == [NoResp EXCEPT !.op = "delete_document", !.doc = d]
       IN IF ~Found(d, u)
          THEN /\ resp' = [r EXCEPT !.outcome = "NotFoundError"]
               /\ UNCHANGED <<docs, dbChunks, userIndex>>
          ELSE /\ userIndex' = delete_document_chunks(userIndex, d, u, fault).coll
               /\ dbChunks' = [dbChunks EXCEPT ![d] = <<>>]
               /\ docs' = [docs EXCEPT ![d] = [NoRow EXCEPT !.status = "deleted"]]
               /\ resp' = [r EXCEPT !.outcome = "ok"]
    /\ UNCHANGED <<runs, docRun, kbIndex, kbs,
                   chatSession, chatMessages, requests>>

\* ------------------------------------------------- KnowledgeBaseService
Category == "acts"

\* add_knowledge_from_text: the entry is created pending, its chunks are
\* added to legal_knowledge, then it is ready; an exception of
\* add_knowledge_base_chunks propagates and leaves it pending.
AddKnowledgeFromText(k, chunks, fault) ==
    /\ kbs[k] = "absent"
    /\ runs < MaxRuns
    /\ runs' = runs + 1
    /\ LET added == add_knowledge_base_chunks(kbIndex, chunks, k, Category, fault)
           r == [NoResp EXCEPT !.op = "add_knowledge_from_text"]
       IN IF added.raised
          THEN /\ kbs' = [kbs EXCEPT ![k] = "pending"]
               /\ resp' = [r EXCEPT !.outcome = "Exception"]
               /\ UNCHANGED kbIndex
          ELSE /\ kbs' = [kbs EXCEPT ![k] = "ready"]
               /\ kbIndex' = added.coll
               /\ resp' = [r EXCEPT !.outcome = "ok"]
    /\ UNCHANGED <<docs, dbChunks, docRun, userIndex,
                   chatSession, chatMessages, requests>>

\* KnowledgeBaseService.delete
DeleteKnowledge(k, fault) ==
    /\ kbs[k] \in {"pending", "ready"}
    /\ kbIndex' = delete_knowledge_base_chunks(kbIndex, k, fault).coll
    /\ kbs' = [kbs EXCEPT ![k] = "deleted"]
    /\ resp' = [NoResp EXCEPT !.op = "delete_knowledge", !.outcome = "ok"]
    /\ UNCHANGED <<docs, dbChunks, runs, docRun, userIndex,
                   chatSession, chatMessages, requests>>

\* ------------------------------------------------------ request handlers
SearchFaults == {"none", "count", "embed", "query"}

Outcome(raised) == IF raised THEN "Exception" ELSE "ok"

\* DocumentService.search_all_documents: search_user_documents over all of
\* the user's documents
SearchAllDocuments(u, q, n, fault) ==
    /\ \E out \in search_user_documents(userIndex, q, u, NoDoc, n, fault) :
          resp' = [NoResp EXCEPT !.op = "search_all_documents", !.user = u, !.n = n,
                                 !.faults = <<fault>>, !.searches = 1,
                                 !.outcome = Outcome(out.raised),
                                 !.chunks = out.results]
    /\ UNCHANGED <<docs, dbChunks, runs, docRun, userIndex, kbIndex, kbs,
                   chatSession, chatMessages, requests>>

\* a status test that rejects failed documents only
NotReadyOnlyFailed(status) == status = "failed"

\* the "status != 'ready'" test of the document-scoped handlers
NotReady(status) == status # "ready"

\* DocumentService.search_document: NotFoundError unless the document is the
\* user's, ValidationError unless it is ready, then search_user_documents
\* scoped to the document
SearchDocument(d, u, q, n, fault) ==
    /\ LET r == [NoResp EXCEPT !.op = "search_document", !.user = u, !.doc = d, !.n = n]
       IN IF ~Found(d, u) THEN resp' = [r EXCEPT !.outcome = "NotFoundError"]
          ELSE IF NotReady(docs[d].status) THEN resp' = [r EXCEPT !.outcome = "ValidationError"]
          ELSE \E out \in search_user_documents(userIndex, q, u, d, n, fault) :
                  resp' = [r EXCEPT !.faults = <<fault>>, !.searches = 1,
                                    !.outcome = Outcome(out.raised),
                                    !.chunks = out.results]
    /\ UNCHANGED <<docs, dbChunks, runs, docRun, userIndex, kbIndex, kbs,
                   chatSession, chatMessages, requests>>

\* VectorStoreService.search_all called with every combination of arguments
SearchAll(q, u, n, include_knowledge_base, include_user_docs, d, kbFault, docFault) ==
    /\ \E out \in search_all(kbIndex, userIndex, q, u, n, include_knowledge_base,
                             include_user_docs, d, kbFault, docFault) :
          resp' = [NoResp EXCEPT !.op = "search_all", !.user = u, !.doc = d, !.n = n,
                                 !.flags = <<include_knowledge_base, include_user_docs>>,
                                 !.faults = <<kbFault, docFault>>,
                                 !.searches = 1,
                                 !.outcome = Outcome(out.raised),
                                 !.chunks = out.results,
                                 !.kb_results = out.kb_results,
                                 !.doc_results = out.doc_results]
    /\ UNCHANGED <<docs, dbChunks, runs, docRun, userIndex, kbIndex, kbs,
                   chatSession, chatMessages, requests>>

\* ------------------------------------------------------------ RAGService
\* settings.AI_DISCLAIMER and the blank line "\n\n", as tokens
AI_DISCLAIMER == "AI_DISCLAIMER"

BlankLine == "BLANK_LINE"

\* the disclaimer put after the response
add_disclaimer_appended(response) == response \o <<BlankLine, AI_DISCLAIMER>>

\* add_disclaimer: f"{settings.AI_DISCLAIMER}\n\n{response}"
add_disclaimer(response) == <<AI_DISCLAIMER, BlankLine>> \o response

\* format_sources: per chunk a preview of its content and its similarity as
\* a percentage
format_sources(chunks) ==
    [i \in 1..Len(chunks) |-> [content_preview |-> chunks[i].content,
                               similarity |-> chunks[i].similarity * 100]]

\* the canned answer of query_document when nothing was retrieved
NotFoundAnswer == <<"I couldn't find relevant information in this document">>

\* what the generation backend's call can do: return a text, or fail
LLMOutputs == {<<"model output">>, <<>>}

LLMResults ==
    {[raised |-> FALSE, response |-> o] : o \in LLMOutputs}
        \cup {[raised |-> TRUE, response |-> <<>>]}

\* a client that turns a backend failure into a marked error text
complete_error_string(llm) ==
    IF llm.raised THEN [raised |-> FALSE, response |-> <<"Error">>] ELSE llm

\* GeminiClient.complete: the backend's text; a backend failure is printed
\* and raised again
complete(llm) ==
    IF llm.raised THEN [raised |-> TRUE, response |-> <<>>]
    ELSE [raised |-> FALSE, response |-> llm.response]

\* generate_response with the client's exception caught and a marked error
\* text returned in its place
generate_response_caught(llm) ==
    LET c == complete(llm)
    IN [raised |-> FALSE,
        response |-> IF c.raised THEN <<"Error">> ELSE c.response,
        calls |-> 1]

\* LLMService.generate_response: one call of client.complete, no try/except
\* and no retry; calls counts the calls made to the client
generate_response(llm) ==
    LET c == complete(llm)
    IN [raised |-> c.raised, response |-> c.response, calls |-> 1]

\* max_chunks of build_context_text (no caller passes another value)
MaxContextChunks == 5

NoInfoSentinel == "No relevant information found in the knowledge base."

\* the context block without the cap
build_context_text_uncapped(chunks) ==
    IF chunks = <<>> THEN [text |-> NoInfoSentinel, parts |-> <<>>]
    ELSE [text |-> "",
          parts |-> [i \in 1..Len(chunks) |-> [source_ref |-> chunks[i].metadata,
                                               content |-> chunks[i].content]]]

\* build_context_text: the sentinel string for an empty passage list;
\* otherwise one part (source reference and content) per passage of
\* chunks[:max_chunks], in order
build_context_text(chunks) ==
    IF chunks = <<>> THEN [text |-> NoInfoSentinel, parts |-> <<>>]
    ELSE [text |-> "",
          parts |-> [i \in 1..(IF Len(chunks) < MaxContextChunks THEN Len(chunks)
                                ELSE MaxContextChunks) |->
                        [source_ref |-> chunks[i].metadata,
                         content |-> chunks[i].content]]]

\* the stages with retrieval and composition exchanged
PipelineComposeFirst ==
    <<"COMPOSE_PROMPT", "RETRIEVE", "GENERATE", "POSTPROCESS", "RETURN">>

\* the stages of one request, in the order the handlers go through them
Pipeline == <<"RETRIEVE", "COMPOSE_PROMPT", "GENERATE", "POSTPROCESS", "RETURN">>

\* no short-circuit, as in analyze_document
ShortCircuitsNever(context_chunks) == FALSE

\* "if not context_chunks": query_document returns the canned answer
ShortCircuits(context_chunks) == context_chunks = <<>>

\* query_document: the document must be the user's and ready
\* (ValidationError otherwise); retrieval scoped to (document, user); the
\* canned answer when nothing was retrieved; otherwise prompt, generation,
\* disclaimer and sources.
QueryDocument(q, d, u, n, fault, llm) ==
    /\ LET r == [NoResp EXCEPT !.op = "query_document", !.user = u, !.doc = d, !.n = n]
           gen == generate_response(llm)
       IN IF ~Found(d, u) \/ NotReady(docs[d].status)
          THEN resp' = [r EXCEPT !.outcome = "ValidationError"]
          ELSE \E out \in search_user_documents(userIndex, q, u, d, n, fault) :
                  LET r1 == [r EXCEPT !.faults = <<fault>>, !.searches = 1]
                      r2 == [r1 EXCEPT !.trace = Take(Pipeline, 1), !.chunks = out.results]
                      r3 == [r2 EXCEPT !.trace = Take(Pipeline, 2),
                                       !.context = build_context_text(out.results),
                                       !.backend_failed = llm.raised,
                                       !.gen_raised = gen.raised,
                                       !.generate_calls = gen.calls]
                  IN IF out.raised
                     THEN resp' = [r1 EXCEPT !.outcome = "Exception"]
                     ELSE IF ShortCircuits(out.results)
                     THEN resp' = [r2 EXCEPT !.outcome = "ok",
                                             !.trace = @ \o <<Pipeline[5]>>,
                                             !.answer = add_disclaimer(NotFoundAnswer),
                                             !.sources = <<>>]
                     ELSE IF gen.raised
                     THEN resp' = [r3 EXCEPT !.outcome = "Exception"]
                     ELSE resp' = [r3 EXCEPT !.outcome = "ok",
                                             !.trace = Pipeline,
                                             !.raw = gen.response,
                                             !.answer = add_disclaimer(gen.response),
                                             !.sources = format_sources(out.results)]
    /\ UNCHANGED <<docs, dbChunks, runs, docRun, userIndex, kbIndex, kbs,
                   chatSession, chatMessages, requests>>

\* query_legal_knowledge: retrieval from the knowledge base (search_all when
\* include_user_docs), prompt, generation, disclaimer, sources
QueryLegalKnowledge(q, u, n, include_user_docs, kbFault, docFault, llm) ==
    /\ LET r == [NoResp EXCEPT !.op = "query_legal_knowledge", !.user = u, !.n = n,
                               !.flags = <<include_user_docs>>,
                               !.faults = <<kbFault, docFault>>, !.searches = 1]
           gen == generate_response(llm)
           retrieved ==
               IF include_user_docs
               THEN {[raised |-> o.raised, results |-> o.results] :
                        o \in search_all(kbIndex, userIndex, q, u, n, TRUE, TRUE, NoDoc,
                                         kbFault, docFault)}
               ELSE search_legal_knowledge(kbIndex, q, n, kbFault)
       IN \E out \in retrieved :
             LET r2 == [r EXCEPT !.trace = Take(Pipeline, 2),
                                 !.chunks = out.results,
                                 !.context = build_context_text(out.results),
                                 !.backend_failed = llm.raised,
                                 !.gen_raised = gen.raised,
                                 !.generate_calls = gen.calls]
             IN IF out.raised
                THEN resp' = [r EXCEPT !.outcome = "Exception"]
                ELSE IF gen.raised
                THEN resp' = [r2 EXCEPT !.outcome = "Exception"]
                ELSE resp' = [r2 EXCEPT !.outcome = "ok",
                                        !.trace = Pipeline,
                                        !.raw = gen.response,
                                        !.answer = add_disclaimer(gen.response),
                                        !.sources = format_sources(out.results)]
    /\ UNCHANGED <<docs, dbChunks, runs, docRun, userIndex, kbIndex, kbs,
                   chatSession, chatMessages, requests>>

\* n_results of analyze_document's retrieval
AnalysisResults == 10

AnalysisTypes == {"summary", "risks", "key_clauses", "other"}

\* the analysis query: the custom query when one is given, else the prompt
\* of the analysis type (a text, embedded like any query); no query for an
\* unknown type
AnalysisQuery(analysis_type, custom_query) ==
    IF custom_query # EmptyText THEN custom_query
    ELSE CASE analysis_type = "summary" -> 1
           [] analysis_type = "risks" -> 2
           [] analysis_type = "key_clauses" -> 1
           [] OTHER -> EmptyText

\* analyze_document: the document must be the user's and ready and the
\* analysis type known (ValidationError otherwise); retrieval scoped to
\* (document, user) with n_results=10; then prompt, generation and
\* disclaimer, whatever the retrieval returned.
AnalyzeDocument(d, u, analysis_type, custom_query, fault, llm) ==
    /\ LET r == [NoResp EXCEPT !.op = "analyze_document", !.user = u, !.doc = d,
                               !.n = AnalysisResults, !.flags = <<analysis_type>>]
           query == AnalysisQuery(analysis_type, custom_query)
           gen == generate_response(llm)
       IN IF ~Found(d, u) \/ docs[d].status # "ready" \/ query = EmptyText
          THEN resp' = [r EXCEPT !.outcome = "ValidationError"]
          ELSE \E out \in search_user_documents(userIndex, query, u, d,
                                                AnalysisResults, fault) :
                  LET r1 == [r EXCEPT !.faults = <<fault>>, !.searches = 1]
                      r3 == [r1 EXCEPT !.trace = Take(Pipeline, 2),
                                       !.chunks = out.results,
                                       !.context = build_context_text(out.results),
                                       !.backend_failed = llm.raised,
                                       !.gen_raised = gen.raised,
                                       !.generate_calls = gen.calls]
                  IN IF out.raised
                     THEN resp' = [r1 EXCEPT !.outcome = "Exception"]
                     ELSE IF gen.raised
                     THEN resp' = [r3 EXCEPT !.outcome = "Exception"]
                     ELSE resp' = [r3 EXCEPT !.outcome = "ok",
                                             !.trace = Pipeline,
                                             !.raw = gen.response,
                                             !.answer = add_disclaimer(gen.response)]
    /\ UNCHANGED <<docs, dbChunks, runs, docRun, userIndex, kbIndex, kbs,
                   chatSession, chatMessages, requests>>

\* ---------------------------------------------------------- chunk_text
\* A text is the sequence of its sentences as chunk_text's splitting yields
\* them; a sentence is known by its position and its length in characters.
SentenceLists == UNION {[1..m -> 1..MaxSentenceLen] : m \in 0..MaxSentences}

RECURSIVE SumLen(_, _)
\* sum(len(s) for s in sentences)
SumLen(lens, sentences) ==
    IF sentences = <<>> THEN 0
    ELSE lens[Head(sentences)] + SumLen(lens, Tail(sentences))

\* one chunk dictionary: ' '.join(current_chunk), its length and the
\* start_char it is given
MakeChunk(lens, chunk_index, current_chunk, start_char) ==
    [chunk_index |-> chunk_index,
     sentences |-> current_chunk,
     char_count |-> SumLen(lens, current_chunk) + Len(current_chunk) - 1,
     start_char |-> start_char]

RECURSIVE ContentLen(_)
\* sum(len(c["content"]) for c in chunks)
ContentLen(chunks) ==
    IF chunks = <<>> THEN 0
    ELSE chunks[1].char_count + ContentLen(Tail(chunks))

\* the overlap reduced to the last sentence, when it fits
OverlapSentencesSingle(lens, current_chunk, kept, chunk_overlap) ==
    IF lens[current_chunk[Len(current_chunk)]] <= chunk_overlap
    THEN <<current_chunk[Len(current_chunk)]>>
    ELSE <<>>

RECURSIVE OverlapSentences(_, _, _, _)
\* "for s in reversed(current_chunk)": trailing sentences are kept for the
\* next chunk while their lengths sum to at most chunk_overlap
OverlapSentences(lens, current_chunk, kept, chunk_overlap) ==
    LET k == Len(current_chunk) - Len(kept)
    IN IF k = 0 THEN kept
       ELSE IF SumLen(lens, kept) + lens[current_chunk[k]] <= chunk_overlap
       THEN OverlapSentences(lens, current_chunk, <<current_chunk[k]>> \o kept, chunk_overlap)
       ELSE kept

\* the last accumulation thrown away
LastChunkDropped(lens, chunks, current_chunk) == chunks

\* "Don't forget the last chunk": a non-empty accumulation is emitted; its
\* start_char is "sum(len(c["content"]) for c in chunks[:-1]) if chunks else
\* 0", evaluated over the chunks emitted before it
LastChunk(lens, chunks, current_chunk) ==
    IF current_chunk # <<>>
    THEN Append(chunks,
                MakeChunk(lens, Len(chunks), current_chunk,
                          IF chunks # <<>>
                          THEN ContentLen(SubSeq(chunks, 1, Len(chunks) - 1))
                          ELSE 0))
    ELSE chunks

RECURSIVE ChunkLoop(_, _, _, _, _, _, _)
\* the loop over the sentences from sentence i on
ChunkLoop(lens, chunk_size, chunk_overlap, i, chunks, current_chunk, current_size) ==
    IF i > Len(lens) THEN LastChunk(lens, chunks, current_chunk)
    ELSE LET full == current_size + lens[i] > chunk_size /\ current_chunk # <<>>
             seed == IF full
                     THEN OverlapSentences(lens, current_chunk, <<>>, chunk_overlap)
                     ELSE current_chunk
             seed_size == IF full THEN SumLen(lens, seed) ELSE current_size
             saved == IF full
                      THEN Append(chunks, MakeChunk(lens, Len(chunks), current_chunk,
                                                    ContentLen(chunks)))
                      ELSE chunks
         IN ChunkLoop(lens, chunk_size, chunk_overlap, i + 1, saved,
                      Append(seed, i), seed_size + lens[i])

\* chunk_text over the sentences of the text ([] for a text without any)
chunk_text(lens, chunk_size, chunk_overlap) ==
    IF lens = <<>> THEN <<>>
    ELSE ChunkLoop(lens, chunk_size, chunk_overlap, 1, <<>>, <<>>, 0)

ChunkText(lens, chunk_size, chunk_overlap) ==
    /\ resp' = [NoResp EXCEPT !.op = "chunk_text",
                              !.input = [sentences |-> lens, chunk_size |-> chunk_size,
                                         chunk_overlap |-> chunk_overlap],
                              !.output = chunk_text(lens, chunk_size, chunk_overlap)]
    /\ UNCHANGED <<docs, dbChunks, runs, docRun, userIndex, kbIndex, kbs,
                   chatSession, chatMessages, requests>>

\* ----------------------------------------------- assign_pages_to_chunks
\* the pages of an extraction: page p of the list has page_num p and the
\* char_count given
PageLists == UNION {[1..m -> 0..MaxPageChars] : m \in 0..MaxPages}

\* chunk lists as the page assignment reads them: start_char and char_count
PagedChunks ==
    UNION {[1..m -> [start_char : 0..MaxStartChar, char_count : 1..MaxCharCount]] :
              m \in 0..MaxPagedChunks}

\* page_positions[p].start: the cumulative char_count of the pages before p
PageStart(pages, p) == SumLen(pages, [q \in 1..(p - 1) |-> q])

\* page_positions[p].end
PageEnd(pages, p) == PageStart(pages, p) + pages[p]

\* the value the loop over page_positions leaves: the page_num of the last
\* page whose test held, 1 when none did
LastPage(hits) == IF hits = {} THEN 1 ELSE CHOOSE p \in hits : \A q \in hits : q <= p

\* assign_pages_to_chunks: start_page = end_page = 1 for every chunk when
\* there is at most one page; otherwise start_page is the page with
\* start <= chunk_start < end and end_page the page with
\* start < chunk_end <= end, each 1 when no page passes the test
assign_pages_to_chunks(chunks, pages) ==
    [i \in 1..Len(chunks) |->
        LET chunk_start == chunks[i].start_char
            chunk_end == chunk_start + chunks[i].char_count
            starts == {p \in 1..Len(pages) :
                          PageStart(pages, p) <= chunk_start /\ chunk_start < PageEnd(pages, p)}
            ends == {p \in 1..Len(pages) :
                        PageStart(pages, p) < chunk_end /\ chunk_end <= PageEnd(pages, p)}
        IN IF Len(pages) <= 1
           THEN [start_char |-> chunk_start, char_count |-> chunks[i].char_count,
                 start_page |-> 1, end_page |-> 1]
           ELSE [start_char |-> chunk_start, char_count |-> chunks[i].char_count,
                 start_page |-> LastPage(starts), end_page |-> LastPage(ends)]]

AssignPagesToChunks(chunks, pages) ==
    /\ resp' = [NoResp EXCEPT !.op = "assign_pages_to_chunks",
                              !.input = [chunks |-> chunks, pages |-> pages],
                              !.output = assign_pages_to_chunks(chunks, pages)]
    /\ UNCHANGED <<docs, dbChunks, runs, docRun, userIndex, kbIndex, kbs,
                   chatSession, chatMessages, requests>>

\* --------------------------------------------------------- embed_texts
TextLists == UNION {[1..m -> Texts \cup {EmptyText, WhitespaceText}] : m \in 0..MaxTexts}

\* "if text and text.strip()"
NonEmpty(t) == t \notin {EmptyText, WhitespaceText}

\* model.encode on a batch: one vector per text, in the batch's order
Encode(batch) == [i \in 1..Len(batch) |-> EmbedModel(batch[i])]

RECURSIVE Reconstruct(_, _, _, _)
\* the reconstruction loop from position i on: a zero vector at an empty
\* position, embeddings_list[non_empty_idx] at the others
Reconstruct(texts, embeddings_list, i, non_empty_idx) ==
    IF i > Len(texts) THEN <<>>
    ELSE IF ~NonEmpty(texts[i])
    THEN <<(<<0, 0>>)>> \o Reconstruct(texts, embeddings_list, i + 1, non_empty_idx)
    ELSE <<embeddings_list[non_empty_idx]>>
            \o Reconstruct(texts, embeddings_list, i + 1, non_empty_idx + 1)

\* embed_texts returning the model's vectors alone
embed_texts_compacted(texts) ==
    LET non_empty_texts == SelectSeq(texts, NonEmpty)
    IN [result |-> Encode(non_empty_texts),
        encode_calls |-> IF non_empty_texts # <<>> THEN <<non_empty_texts>> ELSE <<>>]

\* embed_texts: [] for no texts; the model encodes the non-empty texts in one
\* batch (no call when there is none); result is the reconstructed list,
\* encode_calls the batches the model was called with
embed_texts(texts) ==
    LET non_empty_texts == SelectSeq(texts, NonEmpty)
        embeddings_list == IF non_empty_texts # <<>> THEN Encode(non_empty_texts) ELSE <<>>
    IN IF texts = <<>> THEN [result |-> <<>>, encode_calls |-> <<>>]
       ELSE [result |-> Reconstruct(texts, embeddings_list, 1, 1),
             encode_calls |-> IF non_empty_texts # <<>> THEN <<non_empty_texts>> ELSE <<>>]

EmbedTexts(texts) ==
    /\ resp' = [NoResp EXCEPT !.op = "embed_texts",
                              !.input = texts,
                              !.output = embed_texts(texts)]
    /\ UNCHANGED <<docs, dbChunks, runs, docRun, userIndex, kbIndex, kbs,
                   chatSession, chatMessages, requests>>

\* ------------------------------------------------- conversation history
Roles == {"user", "assistant", "system"}

\* the messages of a chat session in the order of their creation; seq is the
\* message's position in that order
Sessions ==
    UNION {{[i \in 1..m |-> [seq |-> i, role |-> roles[i]]] : roles \in [1..m -> Roles]} :
              m \in 0..MaxMessages}

\* get_session_messages: ORDER BY created_at, LIMIT limit when a limit is given
get_session_messages(messages, limit) ==
    IF limit # 0 THEN Take(messages, limit) ELSE messages

IsTurn(msg) == msg.role \in {"user", "assistant"}

\* get_conversation_history: the user and assistant messages among
\* get_session_messages(limit = max_messages)
get_conversation_history(messages, max_messages) ==
    SelectSeq(get_session_messages(messages, max_messages), IsTurn)

GetConversationHistory(messages, max_messages) ==
    /\ resp' = [NoResp EXCEPT !.op = "get_conversation_history",
                              !.n = max_messages,
                              !.input = messages,
                              !.output = get_conversation_history(messages, max_messages)]
    /\ UNCHANGED <<docs, dbChunks, runs, docRun, userIndex, kbIndex, kbs,
                   chatSession, chatMessages, requests>>

\* ------------------------------------------------------ context block
\* ranked passage lists as retrieval hands them to the prompt builders
PassageLists ==
    UNION {{[i \in 1..m |-> [content |-> texts[i], metadata |-> [chunk_index |-> i - 1]]] :
               texts \in [1..m -> Texts]} : m \in 0..MaxPassages}

BuildContextText(chunks) ==
    /\ resp' = [NoResp EXCEPT !.op = "build_context_text",
                              !.input = chunks,
                              !.context = build_context_text(chunks)]
    /\ UNCHANGED <<docs, dbChunks, runs, docRun, userIndex, kbIndex, kbs,
                   chatSession, chatMessages, requests>>

\* ------------------------------------------------------------ ChatService
\* chatSession   the chat_sessions row of the session
\* chatMessages  the chat_messages rows of the session, in insertion order
\* requests[r]   request r: where it is in send_chat_message (pc), and the
\*               ChatSession object in the identity map of its database
\*               session (expire_on_commit=False: the object is read from
\*               the table once, when get_session_by_id loads it)

\* "tokens_used" of every generate_response result
TokensUsed == 0

\* add_message: the message row is inserted; message_count (and
\* total_tokens, when tokens_used is not 0 / None) of the request's
\* ChatSession object is incremented and the title set from the first user
\* message; the commit writes the attributes that changed to the row.
\* tokens_used None is 0 here.
add_message(session, row, messages, request, role, tokens_used) ==
    LET count == session.message_count + 1
        named == (role = "user" /\ count = 1)
        tokens == IF tokens_used # 0 THEN session.total_tokens + tokens_used
                  ELSE session.total_tokens
    IN [session |-> [title |-> IF named THEN "title from message" ELSE session.title,
                     message_count |-> count, total_tokens |-> tokens],
        row |-> [title |-> IF named THEN "title from message" ELSE row.title,
                 message_count |-> count,
                 total_tokens |-> IF tokens_used # 0 THEN tokens ELSE row.total_tokens],
        messages |-> Append(messages, [role |-> role, tokens_used |-> tokens_used,
                                       request |-> request])]

\* send_chat_message up to the user message: get_session_by_id loads the
\* session (get_conversation_history only reads)
GetSession(r) ==
    /\ requests[r].pc = "idle"
    /\ requests' = [requests EXCEPT ![r] = [pc |-> "loaded", session |-> chatSession]]
    /\ UNCHANGED <<docs, dbChunks, runs, docRun, userIndex, kbIndex, kbs, resp,
                   chatSession, chatMessages>>

\* "Save user message"
AddUserMessage(r) ==
    /\ requests[r].pc = "loaded"
    /\ LET a == add_message(requests[r].session, chatSession, chatMessages, r, "user", 0)
       IN /\ chatSession' = a.row
          /\ chatMessages' = a.messages
          /\ requests' = [requests EXCEPT ![r] = [pc |-> "user_saved", session |-> a.session]]
    /\ UNCHANGED <<docs, dbChunks, runs, docRun, userIndex, kbIndex, kbs, resp>>

\* what the RAG call of the request does: returns a result, or raises
RagOutcomes == {"ok", "ValidationError", "Exception"}

\* the RAG call and what follows it: "Save assistant message" when it
\* returned; HTTP 400 / 500 when it raised
AddAssistantMessage(r, rag) ==
    /\ requests[r].pc = "user_saved"
    /\ LET a == add_message(requests[r].session, chatSession, chatMessages, r,
                            "assistant", TokensUsed)
       IN IF rag = "ok"
          THEN /\ chatSession' = a.row
               /\ chatMessages' = a.messages
               /\ requests' = [requests EXCEPT ![r] = [pc |-> "done", session |-> a.session]]
          ELSE /\ requests' = [requests EXCEPT ![r].pc = "failed"]
               /\ UNCHANGED <<chatSession, chatMessages>>
    /\ UNCHANGED <<docs, dbChunks, runs, docRun, userIndex, kbIndex, kbs, resp>>

\* ------------------------------------------------------- specifications
Next ==
    \/ \E d \in Docs, u \in Users : UploadDocument(d, u)
    \/ \E d \in Docs : ProcessBegin(d)
    \/ \E d \in Docs, c \in ChunkLists, f \in ProcessFaults : ProcessRun(d, c, f)
    \/ \E d \in Docs, u \in Users, f \in {"none", "index"} : DeleteDocument(d, u, f)
    \/ \E k \in KbIds, c \in ChunkLists, f \in {"none", "embed", "add"} :
          AddKnowledgeFromText(k, c, f)
    \/ \E k \in KbIds, f \in {"none", "index"} : DeleteKnowledge(k, f)

\* The document and knowledge-base lifecycle under every fault.
Spec == Init /\ [][Next]_vars

\* The documents' lifecycle alone: uploads, ingests (also an ingest whose
\* index insertion fails), re-ingests and deletes (also a delete whose index
\* step fails) of both users. The knowledge base never touches the
\* user_documents collection and is left out.
NextDocs ==
    \/ \E d \in Docs, u \in Users : UploadDocument(d, u)
    \/ \E d \in Docs : ProcessBegin(d)
    \/ \E d \in Docs, c \in ChunkLists, f \in {"none", "add"} : ProcessRun(d, c, f)
    \/ \E d \in Docs, u \in Users, f \in {"none", "index"} : DeleteDocument(d, u, f)

SpecDocs == Init /\ [][NextDocs]_vars

\* Ingests that fill the store for the request handlers: one document of
\* either user (the other document id stays unknown) and the knowledge base.
Populate ==
    \/ \E u \in Users : UploadDocument("d1", u)
    \/ ProcessBegin("d1")
    \/ \E c \in ChunkLists, f \in {"none", "extract_error"} : ProcessRun("d1", c, f)
    \/ \E k \in KbIds, c \in ChunkLists : AddKnowledgeFromText(k, c, "none")

\* The request handlers leave the store as it is, so a step taken after a
\* request reaches nothing that the same step taken before it does not: the
\* request specifications take every step from a state an ingest produced.
RequestOps ==
    {"search_all_documents", "search_document", "search_all", "query_document",
     "query_legal_knowledge", "analyze_document"}

AfterIngest == resp.op \notin RequestOps

\* the fault of at most one of the two sub-queries
FaultPairs == {<<f, "none">> : f \in SearchFaults} \cup {<<"none", f>> : f \in SearchFaults}

NextSearch ==
    \/ AfterIngest /\ Populate
    \/ /\ AfterIngest
       /\ \E u \in Users, q \in Queries, n \in 1..MaxK, f \in SearchFaults :
             SearchAllDocuments(u, q, n, f)
    \/ /\ AfterIngest
       /\ \E d \in Docs, u \in Users, q \in Queries, n \in 1..MaxK, f \in SearchFaults :
             SearchDocument(d, u, q, n, f)
    \/ /\ AfterIngest
       /\ \E u \in Users, q \in Queries, n \in 1..MaxK, ik \in BOOLEAN, iu \in BOOLEAN,
             d \in Docs \cup {NoDoc}, fk \in {"none", "query"}, fd \in {"none", "query"} :
             SearchAll(q, u, n, ik, iu, d, fk, fd)

\* The vector-store searches over every store the ingests can build.
SpecSearch == Init /\ [][NextSearch]_vars

NextRag ==
    \/ AfterIngest /\ Populate
    \/ /\ AfterIngest
       /\ \E d \in Docs, u \in Users, q \in Texts, n \in 1..MaxK, f \in SearchFaults,
             llm \in LLMResults :
             QueryDocument(q, d, u, n, f, llm)
    \/ /\ AfterIngest
       /\ \E u \in Users, q \in Texts, n \in 1..MaxK, iu \in BOOLEAN,
             f \in FaultPairs, llm \in LLMResults :
             QueryLegalKnowledge(q, u, n, iu, f[1], f[2], llm)
    \/ /\ AfterIngest
       /\ \E d \in Docs, u \in Users, t \in AnalysisTypes, c \in {EmptyText, 2},
             f \in SearchFaults, llm \in LLMResults :
             AnalyzeDocument(d, u, t, c, f, llm)

\* The RAG request handlers over every store the ingests can build.
SpecRag == Init /\ [][NextRag]_vars

\* no operation has run yet
Idle == resp.op = "none"

NextFn ==
    \/ /\ Idle
       /\ \E lens \in SentenceLists, size \in 1..MaxChunkSize, overlap \in 0..MaxOverlap :
             ChunkText(lens, size, overlap)
    \/ Idle /\ \E texts \in TextLists : EmbedTexts(texts)
    \/ /\ Idle
       /\ \E messages \in Sessions, max_messages \in 1..MaxHistory :
             GetConversationHistory(messages, max_messages)
    \/ Idle /\ \E chunks \in PassageLists : BuildContextText(chunks)
    \/ Idle /\ \E chunks \in PagedChunks, pages \in PageLists : AssignPagesToChunks(chunks, pages)

\* The pure functions of the pipeline, each applied to every input within
\* the bounds. Their results do not depend on the state, so each call is
\* made from the initial state.
SpecFn == Init /\ [][NextFn]_vars

NextChat ==
    \/ \E r \in Requests : GetSession(r)
    \/ \E r \in Requests : AddUserMessage(r)
    \/ \E r \in Requests, rag \in RagOutcomes : AddAssistantMessage(r, rag)

\* Requests on one chat session, each in its own database session,
\* interleaving at their awaits.
SpecChat == Init /\ [][NextChat]_vars

\* ----------------------------------------------------------- properties
Min(a, b) == IF a <= b THEN a ELSE b

GeneralAnswered == resp.op = "query_legal_knowledge" /\ resp.outcome = "ok"

Retrieved == "RETRIEVE" \in Range(resp.trace)

\* C2: a query_document request whose retrieval yields no passage returns
\* the canned not-found answer with no sources and calls the generation
\* backend zero times.
C2_NoPassagesShortCircuit ==
    (resp.op = "query_document" /\ Retrieved /\ resp.chunks = <<>>) =>
        /\ resp.outcome = "ok"
        /\ Range(NotFoundAnswer) \subseteq Range(resp.answer)
        /\ resp.raw = <<>>
        /\ resp.sources = <<>>
        /\ resp.generate_calls = 0

C2_Witness ==
    /\ resp.op = "query_document" /\ Retrieved /\ resp.chunks = <<>>
    /\ docs[resp.doc].status = "ready"
    /\ \E e \in userIndex : e.metadata.document_id = resp.doc

\* C3: query_document on a document of the user whose status is not ready
\* raises ValidationError, with no retrieval and no generation call made.
C3_NotReadyRejected ==
    (resp.op = "query_document" /\ Found(resp.doc, resp.user)
        /\ docs[resp.doc].status # "ready") =>
        /\ resp.outcome = "ValidationError"
        /\ resp.searches = 0
        /\ resp.generate_calls = 0

C3_Witness ==
    /\ resp.op = "query_document" /\ Found(resp.doc, resp.user)
    /\ docs[resp.doc].status = "processing"
    /\ \E e \in userIndex : e.metadata.document_id = resp.doc

\* C4: in every store that ingests and deletes can produce, every result of
\* search_user_documents for user A (and document D, when given) is an index
\* entry whose user_id is A (and whose document_id is D).
C4_UserFilter ==
    \A u \in Users, d \in Docs \cup {NoDoc}, q \in Queries, n \in 1..MaxK :
        \A out \in search_user_documents(userIndex, q, u, d, n, "none") :
            \A i \in 1..Len(out.results) :
                \E e \in userIndex :
                    /\ e.id = out.results[i].id
                    /\ e.metadata = out.results[i].metadata
                    /\ e.metadata.user_id = u
                    /\ d # NoDoc => e.metadata.document_id = d

C4_Witness ==
    /\ \E e1 \in userIndex, e2 \in userIndex :
          /\ e1.metadata.user_id = "u1" /\ e2.metadata.user_id = "u2"
    /\ docs["d1"].status = "deleted"
    /\ \E out \in search_user_documents(userIndex, 1, "u1", NoDoc, MaxK, "none") :
          out.results # <<>>

DocEntries(d) == {e \in userIndex : e.metadata.document_id = d}

RunRows(d) == {r \in Range(dbChunks[d]) : r.run = docRun[d]}

\* C5, as claimed: after a document is ingested again, its index entries
\* are the chunks of the latest ingest, none stale and none missing.
C5_ReingestReplaces ==
    \A d \in Docs :
        docs[d].status = "ready" =>
            {<<e.metadata.chunk_index, e.document>> : e \in DocEntries(d)}
                = {<<r.chunk_index, r.content>> : r \in RunRows(d)}

\* C6, as claimed: once delete_document has returned, no index entry of the
\* document remains, whether or not the index delete step failed.
C6_DeleteComplete ==
    \A d \in Docs : docs[d].status = "deleted" => DocEntries(d) = {}

\* C7, as claimed: when an ingest has ended, the document is ready with
\* every chunk of the ingest in the chunk table and in the index, or failed
\* with no chunk of the ingest in either.
C7_IngestAllOrNothing ==
    \A d \in Docs :
        /\ docs[d].status = "ready" =>
              \A r \in RunRows(d) :
                  \E e \in DocEntries(d) : e.id = DocChunkId(d, r.chunk_index)
        /\ docs[d].status = "failed" =>
              /\ RunRows(d) = {}
              /\ dbChunks[d] = <<>> => DocEntries(d) = {}

SearchAllReturned == resp.op = "search_all" /\ resp.outcome = "ok"

\* the results of the two sub-queries that search_all left out
CutOff ==
    {x \in Range(resp.kb_results) \cup Range(resp.doc_results) :
        \A i \in 1..Len(resp.chunks) : resp.chunks[i].id # x.id}

\* C8: what search_all returns is sorted ascending by distance, has
\* min(k, number of sub-query results) entries, each a sub-query result
\* tagged with its collection, no result left out is nearer than one
\* returned, and a collection whose include flag is false contributes none.
C8_SearchAllRanked ==
    SearchAllReturned =>
        LET res == resp.chunks
            kb == resp.kb_results
            dr == resp.doc_results
        IN /\ \A i \in 1..(Len(res) - 1) : res[i].distance <= res[i + 1].distance
           /\ Len(res) = Min(resp.n, Len(kb) + Len(dr))
           /\ \A i \in 1..Len(res), j \in 1..Len(res) : res[i].id = res[j].id => i = j
           /\ \A i \in 1..Len(res) :
                 \/ /\ res[i].source_type = "knowledge_base"
                    /\ \E j \in 1..Len(kb) :
                          res[i] = [id |-> kb[j].id, content |-> kb[j].content,
                                    metadata |-> kb[j].metadata,
                                    distance |-> kb[j].distance,
                                    similarity |-> kb[j].similarity,
                                    source_type |-> "knowledge_base"]
                    /\ \E e \in kbIndex : e.id = res[i].id
                 \/ /\ res[i].source_type = "user_document"
                    /\ \E j \in 1..Len(dr) :
                          res[i] = [id |-> dr[j].id, content |-> dr[j].content,
                                    metadata |-> dr[j].metadata,
                                    distance |-> dr[j].distance,
                                    similarity |-> dr[j].similarity,
                                    source_type |-> "user_document"]
                    /\ \E e \in userIndex : e.id = res[i].id
           /\ \A x \in CutOff : \A i \in 1..Len(res) : res[i].distance <= x.distance
           /\ ~resp.flags[1] => \A i \in 1..Len(res) : res[i].source_type # "knowledge_base"
           /\ ~resp.flags[2] => \A i \in 1..Len(res) : res[i].source_type # "user_document"

C8_Witness ==
    /\ SearchAllReturned
    /\ resp.flags = <<TRUE, TRUE>>
    /\ Len(resp.kb_results) + Len(resp.doc_results) > resp.n
    /\ Len(resp.chunks) = MaxK
    /\ \E i \in 1..Len(resp.chunks) :
          /\ resp.chunks[i].source_type = "user_document"
          /\ \E x \in CutOff :
                /\ x.distance > resp.chunks[i].distance
                /\ \E j \in 1..Len(resp.kb_results) : resp.kb_results[j].id = x.id

\* position of a result in the list search_all sorts: the knowledge-base
\* results in retrieval order, then the user-document results
PreSortPos(x) ==
    IF \E j \in 1..Len(resp.kb_results) : resp.kb_results[j].id = x.id
    THEN CHOOSE j \in 1..Len(resp.kb_results) : resp.kb_results[j].id = x.id
    ELSE Len(resp.kb_results)
            + (CHOOSE j \in 1..Len(resp.doc_results) : resp.doc_results[j].id = x.id)

\* C9: results of equal distance keep their pre-sort order (knowledge base
\* before user documents, retrieval order within a collection), and of
\* equidistant results at the cut the earlier ones are the ones kept.
C9_StableTies ==
    SearchAllReturned =>
        LET res == resp.chunks
        IN /\ \A i \in 1..Len(res), j \in 1..Len(res) :
                 (i < j /\ res[i].distance = res[j].distance) =>
                     /\ PreSortPos(res[i]) < PreSortPos(res[j])
                     /\ res[i].source_type = "user_document"
                            => res[j].source_type = "user_document"
           /\ \A x \in CutOff : \A i \in 1..Len(res) :
                 res[i].distance = x.distance => PreSortPos(res[i]) < PreSortPos(x)

C9_Witness ==
    /\ SearchAllReturned
    /\ \E i \in 1..Len(resp.chunks), j \in 1..Len(resp.chunks) :
          /\ i < j
          /\ resp.chunks[i].distance = resp.chunks[j].distance
          /\ resp.chunks[i].source_type = "knowledge_base"
          /\ resp.chunks[j].source_type = "user_document"
    /\ \E x \in CutOff : x.distance = resp.chunks[Len(resp.chunks)].distance

\* the entries of user_documents in the scope of the last search_all
InScope ==
    {e \in userIndex :
        /\ e.metadata.user_id = resp.user
        /\ resp.doc # NoDoc => e.metadata.document_id = resp.doc}

\* C10: a sub-query whose index query fails yields the empty list and does
\* not raise; search_all then returns the other sub-query's results, in
\* their order and cut to k.
C10_QueryFaultDegrades ==
    /\ (resp.op \in {"search_all_documents", "search_document"} /\ resp.faults = <<"query">>) =>
          resp.outcome = "ok" /\ resp.chunks = <<>>
    /\ (resp.op = "search_all" /\ "query" \in Range(resp.faults)) =>
          /\ resp.outcome = "ok"
          /\ (resp.faults[1] = "query") => resp.kb_results = <<>>
          /\ (resp.faults[2] = "query") => resp.doc_results = <<>>
          /\ (resp.faults = <<"query", "none">> /\ resp.flags[2]) =>
                /\ Len(resp.chunks) = Min(resp.n, Cardinality(InScope))
                /\ \A i \in 1..Len(resp.chunks) :
                      /\ resp.chunks[i].id = resp.doc_results[i].id
                      /\ resp.chunks[i].source_type = "user_document"
                      /\ \E e \in InScope : e.id = resp.chunks[i].id
                /\ \A i \in 1..(Len(resp.chunks) - 1) :
                      resp.chunks[i].distance <= resp.chunks[i + 1].distance
          /\ (resp.faults = <<"none", "query">> /\ resp.flags[1]) =>
                /\ Len(resp.chunks) = Min(resp.n, Cardinality(kbIndex))
                /\ \A i \in 1..Len(resp.chunks) :
                      /\ resp.chunks[i].id = resp.kb_results[i].id
                      /\ resp.chunks[i].source_type = "knowledge_base"
                      /\ \E e \in kbIndex : e.id = resp.chunks[i].id
                /\ \A i \in 1..(Len(resp.chunks) - 1) :
                      resp.chunks[i].distance <= resp.chunks[i + 1].distance

C10_Witness ==
    /\ resp.op = "search_all"
    /\ resp.faults = <<"query", "none">>
    /\ resp.flags = <<TRUE, TRUE>>
    /\ kbIndex # {}
    /\ Len(resp.chunks) = MaxK

RagRequest == resp.op \in {"query_document", "query_legal_knowledge"}

\* C11, as claimed: a general Q&A request whose retrieval fails (collection
\* access, query embedding or index query) still composes its prompt, from
\* an empty passage list when the knowledge base was the only source, and
\* calls the generation backend.
C11_RetrieveFailureDegrades ==
    (/\ resp.op = "query_legal_knowledge"
     /\ \/ resp.faults[1] # "none"
        \/ resp.flags[1] /\ resp.faults[2] # "none") =>
        /\ "COMPOSE_PROMPT" \in Range(resp.trace)
        /\ resp.generate_calls = 1
        /\ ~resp.flags[1] =>
              resp.chunks = <<>> /\ resp.context.text = NoInfoSentinel

\* C12: when the generation backend fails the request raises, returns no
\* answer, no sources and no generated text, and never goes past prompt
\* composition; no request calls the backend more than once.
C12_GenerateFailurePropagates ==
    RagRequest =>
        /\ resp.generate_calls <= 1
        /\ resp.backend_failed =>
              /\ resp.outcome = "Exception"
              /\ resp.answer = <<>>
              /\ resp.sources = <<>>
              /\ resp.raw = <<>>
              /\ resp.generate_calls = 1
              /\ "POSTPROCESS" \notin Range(resp.trace)
              /\ "RETURN" \notin Range(resp.trace)

C12_Witness ==
    /\ resp.op = "query_legal_knowledge"
    /\ resp.backend_failed
    /\ resp.chunks # <<>>
    /\ resp.generate_calls = 1

\* C13, as claimed: generate_response does not raise when the backend fails;
\* it returns a marked error text.
C13_NeverRaises ==
    (RagRequest /\ resp.backend_failed) =>
        /\ ~resp.gen_raised
        /\ resp.raw = <<"Error">>

\* C13, amended: generate_response raises when the backend call fails (the
\* client prints the error and raises it again) and returns no text; when
\* the backend returns, generate_response returns the backend's text.
C13_BackendFailureRaised ==
    (RagRequest /\ resp.generate_calls > 0) =>
        /\ resp.gen_raised <=> resp.backend_failed
        /\ resp.gen_raised => resp.raw = <<>>
        /\ ~resp.gen_raised => resp.raw \in LLMOutputs

C13_Witness ==
    /\ resp.op = "query_document"
    /\ resp.backend_failed
    /\ resp.gen_raised
    /\ resp.generate_calls = 1

StageRank(stage) ==
    CASE stage = "RETRIEVE" -> 1
      [] stage = "COMPOSE_PROMPT" -> 2
      [] stage = "GENERATE" -> 3
      [] stage = "POSTPROCESS" -> 4
      [] stage = "RETURN" -> 5

FirstSentence(chunk) == chunk.sentences[1]

LastSentence(chunk) == chunk.sentences[Len(chunk.sentences)]

RECURSIVE NonOverlapSpans(_, _, _)
\* the chunks from chunk i on, each without the sentences chunks before it
\* already gave (those up to sentence seen), concatenated
NonOverlapSpans(chunks, i, seen) ==
    IF i > Len(chunks) THEN <<>>
    ELSE LET new(k) == k > seen
         IN SelectSeq(chunks[i].sentences, new)
               \o NonOverlapSpans(chunks, i + 1, LastSentence(chunks[i]))

\* C15: chunk_text gives no chunk for a text without sentences; otherwise
\* every chunk is a run of consecutive sentences, the first chunk starts at
\* the first sentence and the last ends at the last one, each chunk starts
\* within (or right after) the chunk before it and ends after it, and the
\* chunks without their overlap prefixes concatenate to the sentence
\* sequence.
C15_ChunkCoverage ==
    resp.op = "chunk_text" =>
        LET lens == resp.input.sentences
            ch == resp.output
            n == Len(lens)
        IN /\ (n = 0) <=> (ch = <<>>)
           /\ \A i \in 1..Len(ch) :
                 /\ ch[i].sentences # <<>>
                 /\ ch[i].chunk_index = i - 1
                 /\ \A k \in 1..(Len(ch[i].sentences) - 1) :
                       ch[i].sentences[k + 1] = ch[i].sentences[k] + 1
           /\ n > 0 => FirstSentence(ch[1]) = 1 /\ LastSentence(ch[Len(ch)]) = n
           /\ \A i \in 1..(Len(ch) - 1) :
                 /\ FirstSentence(ch[i]) <= FirstSentence(ch[i + 1])
                 /\ FirstSentence(ch[i + 1]) <= LastSentence(ch[i]) + 1
                 /\ LastSentence(ch[i + 1]) > LastSentence(ch[i])
           /\ \A k \in 1..n : \E i \in 1..Len(ch) : k \in Range(ch[i].sentences)
           /\ NonOverlapSpans(ch, 1, 0) = [k \in 1..n |-> k]

C15_Witness ==
    /\ resp.op = "chunk_text"
    /\ Len(resp.output) >= 3
    /\ \E i \in 1..(Len(resp.output) - 1) :
          FirstSentence(resp.output[i + 1]) <= LastSentence(resp.output[i])
    /\ \E i \in 1..(Len(resp.output) - 1) :
          FirstSentence(resp.output[i + 1]) = LastSentence(resp.output[i]) + 1

\* C16, as claimed: a chunk none of whose sentences is longer than chunk_size
\* has at most chunk_size characters, not counting the spaces that join its
\* sentences.
C16_ChunkSizeBound ==
    resp.op = "chunk_text" =>
        \A i \in 1..Len(resp.output) :
            LET chunk == resp.output[i]
            IN (\A k \in Range(chunk.sentences) :
                    resp.input.sentences[k] <= resp.input.chunk_size) =>
                   chunk.char_count <= resp.input.chunk_size + Len(chunk.sentences) - 1

\* C17: embed_texts returns one vector per input text; the vector at a
\* position is the zero vector exactly when the text there is empty or
\* whitespace-only, and the model's vector of that text otherwise; the model
\* is called once, on the non-empty texts in their order, and not at all
\* when there is none.
C17_EmbedTextsAligned ==
    resp.op = "embed_texts" =>
        LET texts == resp.input
            result == resp.output.result
            non_empty == SelectSeq(texts, NonEmpty)
        IN /\ Len(result) = Len(texts)
           /\ \A i \in 1..Len(texts) :
                 /\ (result[i] = <<0, 0>>) <=> (texts[i] \in {EmptyText, WhitespaceText})
                 /\ NonEmpty(texts[i]) => result[i] = EmbedModel(texts[i])
           /\ non_empty = <<>> => resp.output.encode_calls = <<>>
           /\ non_empty # <<>> => resp.output.encode_calls = <<non_empty>>

C17_Witness ==
    /\ resp.op = "embed_texts"
    /\ Len(resp.input) = MaxTexts
    /\ resp.input[1] = EmptyText
    /\ resp.input[2] \in Texts
    /\ resp.input[MaxTexts] = WhitespaceText
    /\ Len(resp.output.result) = MaxTexts

SearchOps == {"search_all_documents", "search_document", "search_all"}

\* C18, as claimed: every result a search returns has similarity =
\* 1 - distance, between 0 and 1.
C18_SimilarityBound ==
    resp.op \in SearchOps =>
        \A i \in 1..Len(resp.chunks) :
            /\ resp.chunks[i].similarity = 1 - resp.chunks[i].distance
            /\ 0 <= resp.chunks[i].similarity
            /\ resp.chunks[i].similarity <= 1

\* the last n elements of s
LastN(s, n) == IF n >= Len(s) THEN s ELSE SubSeq(s, Len(s) - n + 1, Len(s))

\* C19, as claimed: the history is the most recent max_messages turns of the
\* session, in chronological order.
C19_MostRecentTurns ==
    resp.op = "get_conversation_history" =>
        resp.output = LastN(SelectSeq(resp.input, IsTurn), resp.n)

\* C20: the context block of a non-empty passage list has one part per
\* passage of its first MaxContextChunks passages, in order, and nothing
\* of later passages; an empty list gives the sentinel string.
C20_ContextCap ==
    resp.op = "build_context_text" =>
        LET chunks == resp.input
            parts == resp.context.parts
        IN /\ chunks = <<>> => resp.context.text = NoInfoSentinel /\ parts = <<>>
           /\ chunks # <<>> =>
                 /\ resp.context.text # NoInfoSentinel
                 /\ Len(parts) = Min(Len(chunks), MaxContextChunks)
                 /\ \A i \in 1..Len(parts) :
                       /\ parts[i].content = chunks[i].content
                       /\ parts[i].source_ref = chunks[i].metadata

C20_Witness ==
    /\ resp.op = "build_context_text"
    /\ Len(resp.input) > MaxContextChunks
    /\ Len(resp.context.parts) = MaxContextChunks
    /\ resp.context.parts[MaxContextChunks].source_ref.chunk_index = MaxContextChunks - 1

\* ---------------------------------------------------------------- C21
\* C21: analyze_document short-circuits like document Q&A: when its
\* retrieval returned no passage, the generation backend is not invoked.
C21_AnalyzeShortCircuits ==
    (resp.op = "analyze_document" /\ resp.searches = 1 /\ resp.outcome # "Exception"
        /\ resp.chunks = <<>>)
        => resp.generate_calls = 0

\* ---------------------------------------------------------------- C22
\* C22: the id of every index entry is the function of its owner and chunk
\* index that the ingest computes (document id and chunk index in
\* user_documents, "kb", entry id and chunk index in legal_knowledge), no
\* two entries of a collection share an id, and the document_id /
\* knowledge_base_id and chunk_index of an entry's metadata are those of
\* its id.
C22_IdsDeterministic ==
    /\ \A e \in userIndex :
          e.id = <<e.metadata.document_id, e.metadata.chunk_index>>
    /\ \A e \in kbIndex :
          e.id = <<"kb", e.metadata.knowledge_base_id, e.metadata.chunk_index>>
    /\ \A e1, e2 \in userIndex : e1.id = e2.id => e1 = e2
    /\ \A e1, e2 \in kbIndex : e1.id = e2.id => e1 = e2

\* a document with several index entries while a second document has
\* entries of its own
C22_Witness ==
    /\ \E e1, e2 \in userIndex :
          e1.metadata.document_id = e2.metadata.document_id /\ e1.id # e2.id
    /\ \E d1, d2 \in Docs : d1 # d2 /\ DocEntries(d1) # {} /\ DocEntries(d2) # {}

\* ---------------------------------------------------------------- C23
KbEntries(k) == {e \in kbIndex : e.metadata.knowledge_base_id = k}

\* C23: a step that ingests, re-ingests or deletes one document leaves the
\* index entries of every other document as they were, and the index
\* entries of every knowledge-base entry the step did not work on as they
\* were, in whatever order the operations on different documents interleave.
C23_OthersUntouched ==
    [][/\ \A d \in Docs : d # resp'.doc => DocEntries(d)' = DocEntries(d)
       /\ \A k \in KbIds : kbs'[k] = kbs[k] => KbEntries(k)' = KbEntries(k)]_vars

\* a document's entries were deleted while another document keeps its own
C23_Witness ==
    /\ resp.op = "delete_document" /\ resp.outcome = "ok"
    /\ docs[resp.doc].status = "deleted" /\ DocEntries(resp.doc) = {}
    /\ \E d \in Docs : d # resp.doc /\ DocEntries(d) # {}

\* ---------------------------------------------------------------- C24
\* C24: a search of an empty collection returns the empty list and does not
\* raise, for search_user_documents (whatever the scope, and before the
\* query is embedded or the index queried) and for search_legal_knowledge
\* alike, provided the collection itself can be opened and counted.
C24_EmptyCollectionEmptyList ==
    /\ (/\ resp.op \in {"search_all_documents", "search_document"}
        /\ resp.searches = 1 /\ userIndex = {} /\ resp.faults # <<"count">>)
          => resp.outcome = "ok" /\ resp.chunks = <<>>
    /\ (resp.op = "search_all" /\ resp.flags = <<TRUE, FALSE>> /\ kbIndex = {})
          => resp.outcome = "ok" /\ resp.chunks = <<>> /\ resp.kb_results = <<>>

\* a search of the empty user_documents collection whose embedder is down
\* returned the empty list
C24_Witness ==
    /\ resp.op \in {"search_all_documents", "search_document"}
    /\ resp.searches = 1 /\ userIndex = {} /\ resp.faults = <<"embed">>
    /\ resp.outcome = "ok" /\ resp.chunks = <<>>

\* ---------------------------------------------------------------- C25
\* the sentences chunk i + 1 took over from chunk i
OverlapSeed(chunks, i) ==
    LET old(k) == k <= LastSentence(chunks[i])
    IN SelectSeq(chunks[i + 1].sentences, old)

IsSuffix(s, t) == Len(s) <= Len(t) /\ s = SubSeq(t, Len(t) - Len(s) + 1, Len(t))

\* C25: the sentences carried from a full chunk into the next one are the
\* longest run of the chunk's last sentences whose lengths sum to at most
\* chunk_overlap, in their original order: the sentence before the run,
\* if there is one, no longer fits. Nothing is carried over when
\* chunk_overlap is 0 or the chunk's last sentence alone is longer than
\* chunk_overlap.
C25_OverlapSeed ==
    resp.op = "chunk_text" =>
        LET lens == resp.input.sentences
            overlap == resp.input.chunk_overlap
            ch == resp.output
        IN \A i \in 1..(Len(ch) - 1) :
              LET seed == OverlapSeed(ch, i)
                  prev == ch[i].sentences
              IN /\ IsSuffix(seed, prev)
                 /\ SumLen(lens, seed) <= overlap
                 /\ Len(seed) < Len(prev) =>
                       SumLen(lens, seed) + lens[prev[Len(prev) - Len(seed)]] > overlap
                 /\ (overlap = 0 \/ lens[LastSentence(ch[i])] > overlap) => seed = <<>>

\* two sentences were carried over and the one before them did not fit
C25_Witness ==
    /\ resp.op = "chunk_text"
    /\ \E i \in 1..(Len(resp.output) - 1) :
          /\ Len(OverlapSeed(resp.output, i)) = 2
          /\ Len(resp.output[i].sentences) > 2

\* ---------------------------------------------------------------- C26
\* C26, as claimed: the chunks carry the indices 0..n-1 in order, and the
\* start_char of every chunk, the last one included, is the sum of the
\* content lengths of the chunks before it: 0 for the first chunk and
\* strictly increasing.
C26_StartCharCumulative ==
    resp.op = "chunk_text" =>
        LET ch == resp.output
        IN \A i \in 1..Len(ch) :
              /\ ch[i].chunk_index = i - 1
              /\ ch[i].start_char = ContentLen(SubSeq(ch, 1, i - 1))
              /\ i > 1 => ch[i].start_char > ch[i - 1].start_char

\* ---------------------------------------------------------------- C27
\* C27, as claimed: after assign_pages_to_chunks every chunk has
\* 1 <= start_page <= end_page <= number of pages, whatever the page map
\* and however far the chunk's offsets lie beyond the pages' characters;
\* with at most one page both are 1.
C27_PageBounds ==
    resp.op = "assign_pages_to_chunks" =>
        LET pages == resp.input.pages
            page_count == IF pages = <<>> THEN 1 ELSE Len(pages)
        IN \A i \in 1..Len(resp.output) :
              /\ 1 <= resp.output[i].start_page
              /\ resp.output[i].start_page <= resp.output[i].end_page
              /\ resp.output[i].end_page <= page_count
              /\ Len(pages) <= 1 =>
                    resp.output[i].start_page = 1 /\ resp.output[i].end_page = 1

\* ---------------------------------------------------------------- C28
\* the status changes of a document row: upload, start of a (re)processing
\* job, its end, and the row's deletion
StatusMoves ==
    {<<"absent", "pending">>, <<"pending", "processing">>, <<"ready", "processing">>,
     <<"failed", "processing">>, <<"processing", "ready">>, <<"processing", "failed">>,
     <<"pending", "deleted">>, <<"ready", "deleted">>, <<"failed", "deleted">>}

\* C28, as claimed: a document's status moves pending -> processing ->
\* ready or failed (and from there into processing again when it is
\* reprocessed); when process_document has ended the status is not
\* processing; the status becomes ready only when every chunk of the job is
\* in the index; and while the status is ready the number of the
\* document's index entries equals its chunk_count.
C28_StatusLifecycle ==
    [][\A d \in Docs :
          /\ docs'[d].status # docs[d].status =>
                <<docs[d].status, docs'[d].status>> \in StatusMoves
          /\ (resp'.op = "process_document" /\ resp'.doc = d) =>
                docs'[d].status \in {"ready", "failed"}
          /\ (docs[d].status = "processing" /\ docs'[d].status = "ready") =>
                \A r \in RunRows(d)' : <<d, r.chunk_index>> \in Ids(userIndex')
          /\ docs'[d].status = "ready" =>
                Cardinality(DocEntries(d)') = docs'[d].chunk_count]_vars

\* ---------------------------------------------------------------- C29
\* C29, as claimed: when process_document has succeeded, for the first time
\* or again, the document has as many chunk rows as its chunk_count says,
\* and every chunk row carries the chroma_id of the index entry with the
\* row's chunk_index.
C29_ChromaIdsMatch ==
    (resp.op = "process_document" /\ resp.outcome = "ok"
        /\ docs[resp.doc].status = "ready")
        => /\ Len(dbChunks[resp.doc]) = docs[resp.doc].chunk_count
           /\ \A r \in Range(dbChunks[resp.doc]) :
                 /\ r.chroma_id = <<resp.doc, r.chunk_index>>
                 /\ \E e \in DocEntries(resp.doc) :
                       e.id = r.chroma_id /\ e.metadata.chunk_index = r.chunk_index

\* ---------------------------------------------------------------- C30
RECURSIVE SumTokens(_)
SumTokens(messages) ==
    IF messages = <<>> THEN 0
    ELSE messages[1].tokens_used + SumTokens(Tail(messages))

MessagesOf(r, role) ==
    {i \in 1..Len(chatMessages) :
        chatMessages[i].request = r /\ chatMessages[i].role = role}

\* C30, as claimed: after any add_message calls, those of interleaving
\* requests included, the session's message_count is the number of its
\* stored messages and its total_tokens the sum of their tokens_used; a
\* request whose generation failed has its user message stored and no
\* assistant message.
C30_SessionCounters ==
    /\ chatSession.message_count = Len(chatMessages)
    /\ chatSession.total_tokens = SumTokens(chatMessages)
    /\ \A r \in Requests :
          requests[r].pc = "failed" =>
              /\ Cardinality(MessagesOf(r, "user")) = 1
              /\ MessagesOf(r, "assistant") = {}

====
